---- MODULE Spec2Model ----
(***************************************************************************)
(* Model of Partie_3_Embedding/prott5_embedder.py: the batch packing loop  *)
(* of embed_fasta, the recursive split / CPU fallback of safe_embed, the   *)
(* in-memory embedding dictionary and its TSV persistence.                 *)
(*                                                                         *)
(* Identifiers are sequences of one-character strings, so that the         *)
(* sanitisation of read_fasta is computed character by character.  A       *)
(* residue string is represented by its length: no statement checked here  *)
(* depends on the residues themselves, and the replacements of line 181    *)
(* (U, Z, O -> X) keep the length.                                         *)
(***************************************************************************)
EXTENDS Integers, Sequences, FiniteSets, TLC

VARIABLES
    source,        \* the FASTA file and the allow-list IDs, until they are read
    seqs,          \* read_fasta's result: insertion-ordered <<[uid, len]>>
    max_residues,  \* --max_residues
    max_seq_len,   \* --max_seq_len
    max_batch,     \* --max_batch
    save_every,    \* --save_every
    auto_shrink,   \* --auto_shrink
    per_protein,   \* --per_protein
    oracle,        \* behaviour of the encoder: free, or a stub with threshold T
    pc,            \* position of embed_fasta
    entries,       \* sorted(seqs.items(), key=len, reverse=True)
    i,             \* loop index of embed_fasta (1-based, 0 before the loop)
    batch,         \* the open batch: <<[uid, len]>>
    batch_idx,     \* number of batches handed to safe_embed
    emb_dict,      \* id -> embedding
    stack,         \* call stack of safe_embed, innermost frame last
    placement,     \* where the encoder's weights are, and their dtype
    tsv,           \* lines of the output file
    exc,           \* the exception that ended the run, if any
    trace          \* history: what the run did, in order

vars == <<source, seqs, max_residues, max_seq_len, max_batch, save_every, auto_shrink,
          per_protein, oracle, pc, entries, i, batch, batch_idx, emb_dict,
          stack, placement, tsv, exc, trace>>

config == <<source, seqs, max_residues, max_seq_len, max_batch, save_every,
            auto_shrink, per_protein, oracle>>

options == <<max_residues, max_seq_len, max_batch, save_every, auto_shrink,
             per_protein, oracle>>

----------------------------------------------------------------------------
(* Bounds of the model. *)

\* number of sequences of the runs that recurse more than one level deep
DeepRecords == 4

\* number of records of the FASTA file
MaxRecords == 3
\* residues of one record
MaxLen == 2

----------------------------------------------------------------------------
(* Sequences. *)

RECURSIVE SumLens(_)
SumLens(s) == IF s = <<>> THEN 0 ELSE Head(s) + SumLens(Tail(s))

Front(s) == SubSeq(s, 1, Len(s) - 1)

Last(s) == s[Len(s)]

Range(s) == {s[k] : k \in DOMAIN s}

Uids(b) == [k \in DOMAIN b |-> b[k].uid]

Lens(b) == [k \in DOMAIN b |-> b[k].len]

\* all sequences over S of length 0..n
RECURSIVE SeqsUpTo(_, _)
SeqsUpTo(S, n) ==
    IF n = 0 THEN {<<>>}
    ELSE LET shorter == SeqsUpTo(S, n - 1)
         IN  shorter \cup {Append(s, x) : s \in {t \in shorter : Len(t) = n - 1}, x \in S}

----------------------------------------------------------------------------
(* read_fasta. *)

\* headers (first token after '>') that occur in the modelled FASTA files
RawIds == { <<"a">>, <<"b", "/", "c">>, <<"b", ".", "c">>, <<"d">> }

\* contents of the allow-list file Partie_4_UMAP/input/IDs_sup15_all_or_ref.txt
AllowLists == { {}, RawIds, RawIds \ {<<"d">>} }

\* uid.replace("/", "_").replace(".", "_")
Sanitize(uid) ==
    [k \in DOMAIN uid |-> IF uid[k] \in {"/", "."} THEN "_" ELSE uid[k]]

Fastas == SeqsUpTo([hdr : RawIds, len : 1..MaxLen], MaxRecords)

\* seqs[uid] = "" followed by the += of the record's lines: a new key is
\* appended, an existing key keeps its position and takes the new value
SetSeq(d, uid, n) ==
    IF \E k \in DOMAIN d : d[k].uid = uid
    THEN [k \in DOMAIN d |-> IF d[k].uid = uid THEN [uid |-> uid, len |-> n] ELSE d[k]]
    ELSE Append(d, [uid |-> uid, len |-> n])

\* a variant of line 80 with a slip: an empty allow-list keeps every record
RECURSIVE ReadFastaEmptyKeepsAll(_, _)
ReadFastaEmptyKeepsAll(fasta, ids_keep) ==
    IF fasta = <<>> THEN <<>>
    ELSE LET rec == Last(fasta)
             d   == ReadFastaEmptyKeepsAll(Front(fasta), ids_keep)
         IN  IF ids_keep = {} \/ rec.hdr \in ids_keep
             THEN SetSeq(d, Sanitize(rec.hdr), rec.len)
             ELSE d

RECURSIVE read_fasta(_, _)
read_fasta(fasta, ids_keep) ==
    IF fasta = <<>> THEN <<>>
    ELSE LET rec == Last(fasta)
             d   == read_fasta(Front(fasta), ids_keep)
         IN  IF rec.hdr \in ids_keep
             THEN SetSeq(d, Sanitize(rec.hdr), rec.len)
             ELSE d

----------------------------------------------------------------------------
(* sorted(seqs.items(), key=lambda kv: len(kv[1]), reverse=True): stable,  *)
(* records of equal length keep their order.                               *)

RECURSIVE InsertDesc(_, _)
InsertDesc(e, s) ==
    IF s = <<>> THEN <<e>>
    ELSE IF Head(s).len >= e.len THEN <<Head(s)>> \o InsertDesc(e, Tail(s))
    ELSE <<e>> \o s

\* a variant of line 171 with a slip: the entries are taken in file order
SortedEntriesFileOrder(d) == d

RECURSIVE SortedEntries(_)
SortedEntries(d) ==
    IF d = <<>> THEN <<>>
    ELSE InsertDesc(Last(d), SortedEntries(Front(d)))

----------------------------------------------------------------------------
(* Run options: the values the runs of the model are started with. *)

\* argparse defaults of --max_seq_len and --save_every
DefaultMaxSeqLen == 1000
DefaultSaveEvery == 10000

\* argparse defaults of --max_residues and --max_batch
DefaultMaxResidues == 4000
DefaultMaxBatch == 256

MaxBatchOpts == {2, 3}

MaxResiduesOpts == {2, 4}

MaxSeqLenOpts == {1, DefaultMaxSeqLen}

SaveEveryOpts == {1, 2}

\* an encoder that may reject or fail on any submission
FreeOracle == [kind |-> "free", T |-> 0]

\* the documented scenario: five sequences of 50, 40, 10, 10 and 5 residues,
\* max_batch 5, max_residues 60, and a stub encoder that reports out of
\* memory when more than 55 residues are submitted at once
ExampleSeqs ==
    << [uid |-> <<"s", "1">>, len |-> 50], [uid |-> <<"s", "2">>, len |-> 40],
       [uid |-> <<"s", "3">>, len |-> 10], [uid |-> <<"s", "4">>, len |-> 10],
       [uid |-> <<"s", "5">>, len |-> 5] >>

ExampleOracle == [kind |-> "stub", T |-> 55]

IsExample ==
    /\ seqs = ExampleSeqs
    /\ max_batch = 5
    /\ max_residues = 60
    /\ max_seq_len = DefaultMaxSeqLen
    /\ oracle = ExampleOracle

----------------------------------------------------------------------------
(* The embedding dictionary and the TSV file. *)

NoExc == [type |-> "none", at |-> "none", names |-> {}]

\* a variant of line 123 with a slip: the row is not cut to the true length
EmbeddingPadded(rep, n, pooled) ==
    IF pooled
    THEN [pooled |-> TRUE, v |-> <<SumLens(rep)>>, den |-> Len(rep)]
    ELSE [pooled |-> FALSE, v |-> rep, den |-> 1]

\* emb = reps[b, :lens[b]]; if per_protein: emb = emb.mean(dim=0) (lines
\* 123-125).  An array is its numbers v over the common denominator den: the
\* rows of the slice, or their sum over their count for the mean
Embedding(rep, n, pooled) ==
    LET rows == SubSeq(rep, 1, IF n < Len(rep) THEN n ELSE Len(rep))
    IN  IF pooled
        THEN [pooled |-> TRUE, v |-> <<SumLens(rows)>>, den |-> Len(rows)]
        ELSE [pooled |-> FALSE, v |-> rows, den |-> 1]

\* a variant of lines 143-144 with a slip: the fallback forgets the pooling
CpuEmbeddingUnpooled(rep, n, pooled) ==
    LET rows == SubSeq(rep, 1, IF n < Len(rep) THEN n ELSE Len(rep))
    IN  [pooled |-> FALSE, v |-> rows, den |-> 1]

\* emb = reps_cpu[0, :lens[0]]; if per_protein: emb = emb.mean(dim=0) (lines
\* 142-144)
CpuEmbedding(rep, n, pooled) ==
    LET rows == SubSeq(rep, 1, IF n < Len(rep) THEN n ELSE Len(rep))
    IN  IF pooled
        THEN [pooled |-> TRUE, v |-> <<SumLens(rows)>>, den |-> Len(rows)]
        ELSE [pooled |-> FALSE, v |-> rows, den |-> 1]

\* a variant of line 126 with a slip: the dictionary is made anew
PutFresh(d, uid, emb) == [u \in {uid} |-> emb]

\* emb_dict[uid] = emb
Put(d, uid, emb) ==
    [u \in DOMAIN d \cup {uid} |-> IF u = uid THEN emb ELSE d[u]]

\* code points of the characters of the modelled identifiers
CharCode ==
    [c \in {".", "/", "1", "2", "3", "4", "5", "_", "a", "b", "c", "d", "o", "s"} |->
        CASE c = "." -> 46 [] c = "/" -> 47 [] c = "1" -> 49 [] c = "2" -> 50
          [] c = "3" -> 51 [] c = "4" -> 52 [] c = "5" -> 53 [] c = "_" -> 95
          [] c = "a" -> 97 [] c = "b" -> 98 [] c = "c" -> 99 [] c = "d" -> 100
          [] c = "o" -> 111 [] c = "s" -> 115]

\* Python's str.__lt__
RECURSIVE StrLess(_, _)
StrLess(a, b) ==
    IF b = <<>> THEN FALSE
    ELSE IF a = <<>> THEN TRUE
    ELSE IF Head(a) = Head(b) THEN StrLess(Tail(a), Tail(b))
    ELSE CharCode[Head(a)] < CharCode[Head(b)]

\* sorted(emb_dict.keys())
RECURSIVE SortedKeys(_)
SortedKeys(S) ==
    IF S = {} THEN <<>>
    ELSE LET m == CHOOSE x \in S : \A y \in S \ {x} : StrLess(x, y)
         IN  <<m>> \o SortedKeys(S \ {m})

\* " ".join(map(str, emb.reshape(-1))): the numbers of the array in one
\* row, its shape dropped
TsvVec(emb) == [nums |-> emb.v, den |-> emb.den]

\* a variant of line 59 with a slip: the file is opened with "a"
SaveAppend(d, old) ==
    IF DOMAIN d = {} THEN old
    ELSE LET ks == SortedKeys(DOMAIN d)
         IN  old \o [k \in DOMAIN ks |-> [uid |-> ks[k], vec |-> TsvVec(d[ks[k]])]]

\* save_ids_and_embeddings_tsv: nothing is written for an empty dictionary,
\* otherwise the file is opened with "w" and one line per key is written
save_ids_and_embeddings_tsv(d, old) ==
    IF DOMAIN d = {} THEN old
    ELSE LET ks == SortedKeys(DOMAIN d)
         IN  [k \in DOMAIN ks |-> [uid |-> ks[k], vec |-> TsvVec(d[ks[k]])]]

\* what the destination holds before the run: a file of an earlier run
PriorTsv == << [uid |-> <<"o">>, vec |-> [nums |-> <<1>>, den |-> 1]] >>

----------------------------------------------------------------------------
(* Initial states: read_fasta has returned (line 164). *)

Ev(e, ids, k) == [ev |-> e, ids |-> ids, k |-> k]

InitRun ==
    /\ pc = "start"
    /\ entries = <<>>
    /\ i = 0
    /\ batch = <<>>
    /\ batch_idx = 0
    /\ emb_dict = <<>>
    /\ stack = <<>>
    /\ placement = "cuda"
    /\ tsv = PriorTsv
    /\ exc = NoExc
    /\ trace = <<>>

InitAny ==
    /\ seqs \in {read_fasta(f, ids) : f \in Fastas, ids \in AllowLists}
    /\ max_batch \in MaxBatchOpts
    /\ max_residues \in MaxResiduesOpts
    /\ max_seq_len \in MaxSeqLenOpts
    /\ save_every \in SaveEveryOpts
    /\ auto_shrink \in BOOLEAN
    /\ per_protein \in BOOLEAN
    /\ oracle = FreeOracle

InitExample ==
    /\ seqs = ExampleSeqs
    /\ max_batch = 5
    /\ max_residues = 60
    /\ max_seq_len = DefaultMaxSeqLen
    /\ save_every = DefaultSaveEvery
    /\ auto_shrink = TRUE
    /\ per_protein \in BOOLEAN
    /\ oracle = ExampleOracle

\* the input of the runs that start after read_fasta has returned: not kept
AlreadyRead == [fasta |-> <<>>, ids |-> {}, known |-> FALSE]

Init == (InitAny \/ InitExample) /\ InitRun /\ source = AlreadyRead

\* the runs with --auto_shrink and the default --max_seq_len
InitCore ==
    /\ source = AlreadyRead
    /\ seqs \in { read_fasta(f, ids) : f \in Fastas, ids \in AllowLists }
    /\ max_batch \in MaxBatchOpts
    /\ max_residues \in MaxResiduesOpts
    /\ max_seq_len = DefaultMaxSeqLen
    /\ save_every \in SaveEveryOpts
    /\ auto_shrink = TRUE
    /\ per_protein \in BOOLEAN
    /\ oracle = FreeOracle
    /\ InitRun

\* the runs over every choice of the batch limits, with --auto_shrink and
\* without --per_protein
InitPack ==
    /\ source = AlreadyRead
    /\ seqs \in { read_fasta(f, ids) : f \in Fastas, ids \in AllowLists }
    /\ max_batch \in MaxBatchOpts
    /\ max_residues \in MaxResiduesOpts
    /\ max_seq_len \in MaxSeqLenOpts
    /\ save_every \in SaveEveryOpts
    /\ auto_shrink = TRUE
    /\ per_protein = FALSE
    /\ oracle = FreeOracle
    /\ InitRun

\* the runs over DeepRecords selected sequences of one residue each, with the
\* default limits, which put them in one batch, or in batches of two
DeepSeqs ==
    [k \in 1..DeepRecords |->
        [uid |-> <<"s", <<"1", "2", "3", "4", "5">>[k]>>, len |-> 1]]

InitDeep ==
    /\ source = AlreadyRead
    /\ seqs = DeepSeqs
    /\ max_batch \in {2, DefaultMaxBatch}
    /\ max_residues = DefaultMaxResidues
    /\ max_seq_len = DefaultMaxSeqLen
    /\ save_every = DefaultSaveEvery
    /\ auto_shrink = TRUE
    /\ per_protein \in BOOLEAN
    /\ oracle = FreeOracle
    /\ InitRun

\* the runs with --max_batch 3 --max_residues 4, in both output modes
InitStore ==
    /\ source = AlreadyRead
    /\ seqs \in { read_fasta(f, ids) : f \in Fastas, ids \in AllowLists }
    /\ max_batch = 3
    /\ max_residues = 4
    /\ max_seq_len = DefaultMaxSeqLen
    /\ save_every \in SaveEveryOpts
    /\ auto_shrink = TRUE
    /\ per_protein \in BOOLEAN
    /\ oracle = FreeOracle
    /\ InitRun

\* the runs from before read_fasta (line 164), over FASTA files of records of
\* one residue
FastasIn == SeqsUpTo([hdr : RawIds, len : {1}], MaxRecords)

InitInput ==
    /\ source \in [fasta : FastasIn, ids : AllowLists, known : {TRUE}]
    /\ seqs = <<>>
    /\ max_batch = 2
    /\ max_residues = 4
    /\ max_seq_len = DefaultMaxSeqLen
    /\ save_every = 2
    /\ auto_shrink = TRUE
    /\ per_protein = TRUE
    /\ oracle = FreeOracle
    /\ pc = "read"
    /\ entries = <<>>
    /\ i = 0
    /\ batch = <<>>
    /\ batch_idx = 0
    /\ emb_dict = <<>>
    /\ stack = <<>>
    /\ placement = "cuda"
    /\ tsv = PriorTsv
    /\ exc = NoExc
    /\ trace = <<>>

----------------------------------------------------------------------------
(* embed_fasta, line 164. *)

\* seqs = read_fasta(fasta_path, IDs)
ReadFasta ==
    /\ pc = "read"
    /\ seqs' = read_fasta(source.fasta, source.ids)
    /\ pc' = "start"
    /\ UNCHANGED <<source, options, entries, i, batch, batch_idx, emb_dict, stack,
                   placement, tsv, exc, trace>>

----------------------------------------------------------------------------
(* embed_fasta, up to the call of safe_embed. *)

\* lines 164-176: an empty selection raises ValueError before the model is
\* loaded; otherwise the entries are sorted and the loop starts
Start ==
    /\ pc = "start"
    /\ IF seqs = <<>>
       THEN /\ pc' = "fatal"
            /\ exc' = [type |-> "ValueError", at |-> "read_fasta", names |-> {}]
            /\ trace' = Append(trace, Ev("fatal", <<>>, 0))
            /\ UNCHANGED entries
       ELSE /\ pc' = "loop"
            /\ entries' = SortedEntries(seqs)
            /\ UNCHANGED <<exc, trace>>
    /\ UNCHANGED <<config, i, batch, batch_idx, emb_dict, stack, placement, tsv>>

\* variants of line 186 with a slip: the end of the input does not close the
\* batch; the residues of the last record are taken for the sum; the limits
\* must be exceeded, not reached
FlushNoLast(b, n, e) ==
    \/ Len(b) >= max_batch
    \/ SumLens(Lens(b)) >= max_residues
    \/ e.len > max_seq_len

FlushLastLen(b, n, e) ==
    \/ Len(b) >= max_batch
    \/ e.len >= max_residues
    \/ n = Len(entries)
    \/ e.len > max_seq_len

FlushStrict(b, n, e) ==
    \/ Len(b) > max_batch
    \/ SumLens(Lens(b)) > max_residues
    \/ n = Len(entries)
    \/ e.len > max_seq_len

\* line 186, for the batch b after the append of the n-th entry e
Flush(b, n, e) ==
    \/ Len(b) >= max_batch
    \/ SumLens(Lens(b)) >= max_residues
    \/ n = Len(entries)
    \/ e.len > max_seq_len

\* line 182: the spaced residues of the entries of a batch; a residue string
\* is known by the record it comes from and by its length
Spaced(b) == [k \in DOMAIN b |-> [of |-> b[k].uid, n |-> b[k].len]]

\* a frame of safe_embed: its arguments ids, seqs_spaced and lens, and where
\* it is: "try" before the encoder call of line 121, "first" and "second"
\* inside the recursive calls of lines 132 and 133, "cpu" before the call of
\* line 139
Frame(ids, spaced, lens) ==
    [ids |-> ids, spaced |-> spaced, lens |-> lens, at |-> "try"]

\* lines 178-188: an iteration that leaves the batch open; the for loop ends
\* after the last entry (lines 202-203)
Accumulate ==
    /\ pc = "loop"
    /\ i < Len(entries)
    /\ LET e == entries[i + 1]
           b == Append(batch, e)
       IN  /\ ~Flush(b, i + 1, e)
           /\ batch' = b
    /\ i' = i + 1
    /\ pc' = IF i + 1 = Len(entries) THEN "done" ELSE "loop"
    /\ UNCHANGED <<config, entries, batch_idx, emb_dict, stack, placement,
                   tsv, exc, trace>>

\* lines 178-195: an iteration that closes the batch and calls safe_embed
Dispatch ==
    /\ pc = "loop"
    /\ i < Len(entries)
    /\ LET e == entries[i + 1]
           b == Append(batch, e)
       IN  /\ Flush(b, i + 1, e)
           /\ stack' = <<Frame(Uids(b), Spaced(b), Lens(b))>>
           /\ trace' = Append(trace, Ev("unit", Uids(b), batch_idx + 1))
    /\ batch' = <<>>
    /\ batch_idx' = batch_idx + 1
    /\ i' = i + 1
    /\ pc' = "embed"
    /\ UNCHANGED <<config, entries, emb_dict, placement, tsv, exc>>

----------------------------------------------------------------------------
(* safe_embed. *)

\* a variant of line 131 with a slip: the middle is rounded up
MidCeil(ids) == (Len(ids) + 1) \div 2

\* mid = len(ids) // 2
Mid(ids) == Len(ids) \div 2

\* a variant of line 132 with a slip: the first call takes the slice [mid:]
FirstHalfIsRight(s, mid) == SubSeq(s, mid + 1, Len(s))

\* a variant of line 132 with a slip: the first call takes the whole list
FirstHalfWhole(s, mid) == s

\* ids[:mid], lens[:mid]
FirstHalf(s, mid) == SubSeq(s, 1, mid)

\* variant of the slice of line 133 that starts one member late
SecondHalfSkip(s, mid) == SubSeq(s, mid + 2, Len(s))

\* ids[mid:], lens[mid:]
SecondHalf(s, mid) == SubSeq(s, mid + 1, Len(s))

\* the ways the encoder call and the loop of lines 117-126 can end for a
\* frame: "ok"; "oom", a RuntimeError whose text holds "out of memory", raised
\* by the forward pass (k = 0) or, when pooling, by the device allocation of
\* emb.mean for member k + 1, after k members were stored; "err", any other
\* exception, after k members were stored
Outcomes(f) ==
    LET n == Len(f.ids)
    IN  IF oracle.kind = "stub"
        THEN IF SumLens(f.lens) > oracle.T
             THEN {[res |-> "oom", k |-> 0]}
             ELSE {[res |-> "ok", k |-> n]}
        ELSE {[res |-> "ok", k |-> n]}
             \cup {[res |-> "oom", k |-> k] : k \in 0..(IF per_protein THEN n - 1 ELSE 0)}
             \cup {[res |-> "err", k |-> k] : k \in 0..(n - 1)}

\* the ways the CPU call of lines 137-145 can end
CpuOutcomes == IF oracle.kind = "stub" THEN {"ok"} ELSE {"ok", "err"}

\* a number that stands for a residue string
RECURSIVE Code(_)
Code(c) == IF c = <<>> THEN 0 ELSE CharCode[Head(c)] + Code(Tail(c))

\* the encoder's output for position p of the residue string c: a function
\* of the string and the position alone (the hidden size is taken as 1)
Val(c, p) == 100 * Code(c) + p

RECURSIVE MaxOf(_)
MaxOf(ns) ==
    IF ns = <<>> THEN 0
    ELSE LET m == MaxOf(Tail(ns)) IN IF Head(ns) > m THEN Head(ns) ELSE m

\* lines 117-121 and 137-141: tok(..., add_special_tokens=True, padding=True)
\* ends every string with one special token and pads to the longest; the
\* model returns one vector per token, last_hidden_state [B, L, H]
Encode(spaced) ==
    LET L == MaxOf([b \in DOMAIN spaced |-> spaced[b].n]) + 1
    IN  [b \in DOMAIN spaced |->
            [p \in 1..L |-> IF p <= spaced[b].n + 1 THEN Val(spaced[b].of, p) ELSE 0]]

\* lines 122-126 for the first k members of a frame
RECURSIVE StoreMembers(_, _, _)
StoreMembers(d, f, k) ==
    IF k = 0 THEN d
    ELSE Put(StoreMembers(d, f, k - 1), f.ids[k],
             Embedding(Encode(f.spaced)[k], f.lens[k], per_protein))

\* lines 137-145: the member of a frame of one sequence, from the CPU call
StoreFromCpu(d, f) ==
    Put(d, f.ids[1], CpuEmbedding(Encode(f.spaced)[1], f.lens[1], per_protein))

PutEvents(f, k) == [b \in 1..k |-> Ev("put", <<f.ids[b]>>, 0)]

\* the frame on top of stk has returned: its caller goes on, with the second
\* recursive call (line 133) after the first, with its own return after the
\* second
RECURSIVE Return(_)
Return(stk) ==
    LET f    == Last(stk)
        rest == Front(stk)
        ret  == Ev("return", f.ids, 0)
    IN  IF rest = <<>> THEN [stack |-> <<>>, events |-> <<ret>>]
        ELSE LET p   == Last(rest)
                 mid == Mid(p.ids)
             IN  IF p.at = "first"
                 THEN [stack  |-> Front(rest)
                                  \o <<[p EXCEPT !.at = "second"],
                                       Frame(SecondHalf(p.ids, mid), SecondHalf(p.spaced, mid),
                                             SecondHalf(p.lens, mid))>>,
                       events |-> <<ret>>]
                 ELSE LET r == Return(rest)
                      IN  [stack |-> r.stack, events |-> <<ret>> \o r.events]

\* a variant of line 199 with a slip: the end of the input is not tested
SaveDueNoLast == batch_idx % save_every = 0

\* line 199
SaveDue == batch_idx % save_every = 0 \/ i = Len(entries)

\* a member was stored and the innermost frame returns; when the outermost
\* frame returns, embed_fasta goes on with lines 197-200 and the next
\* iteration, or leaves the loop
Resume(d, events) ==
    LET r == Return(stack)
    IN  /\ emb_dict' = d
        /\ stack' = r.stack
        /\ IF r.stack # <<>>
           THEN /\ trace' = trace \o events \o r.events
                /\ UNCHANGED <<pc, tsv>>
           ELSE /\ pc' = IF i = Len(entries) THEN "done" ELSE "loop"
                /\ IF SaveDue
                   THEN /\ tsv' = save_ids_and_embeddings_tsv(d, tsv)
                        /\ trace' = trace \o events \o r.events
                                          \o <<Ev("flush", SortedKeys(DOMAIN d), batch_idx)>>
                   ELSE /\ tsv' = tsv
                        /\ trace' = trace \o events \o r.events

Top == Last(stack)

\* lines 117-126 without exception
SubmitOk ==
    /\ pc = "embed"
    /\ Top.at = "try"
    /\ [res |-> "ok", k |-> Len(Top.ids)] \in Outcomes(Top)
    /\ Resume(StoreMembers(emb_dict, Top, Len(Top.ids)),
              <<Ev("submit", Top.ids, 0), Ev("ok", Top.ids, 0)>>
                  \o PutEvents(Top, Len(Top.ids)))
    /\ UNCHANGED <<config, entries, i, batch, batch_idx, placement, exc>>

\* lines 127-133: out of memory with more than one member
SplitOnOom ==
    /\ pc = "embed"
    /\ Top.at = "try"
    /\ Len(Top.ids) > 1
    /\ \E o \in Outcomes(Top) :
          /\ o.res = "oom"
          /\ LET mid == Mid(Top.ids)
             IN  /\ emb_dict' = StoreMembers(emb_dict, Top, o.k)
                 /\ stack' = Front(stack)
                               \o <<[Top EXCEPT !.at = "first"],
                                    Frame(FirstHalf(Top.ids, mid), FirstHalf(Top.spaced, mid),
                                          FirstHalf(Top.lens, mid))>>
                 /\ trace' = trace \o <<Ev("submit", Top.ids, 0)>> \o PutEvents(Top, o.k)
                                   \o <<Ev("oom", Top.ids, o.k), Ev("empty_cache", Top.ids, 0),
                                        Ev("split", Top.ids, mid)>>
    /\ UNCHANGED <<config, pc, entries, i, batch, batch_idx, placement, tsv, exc>>

\* variant of lines 134-141 that submits the single sequence to the device
\* again instead of calling the CPU path
FallbackOnOomRetry ==
    /\ pc = "embed"
    /\ Top.at = "try"
    /\ Len(Top.ids) = 1
    /\ [res |-> "oom", k |-> 0] \in Outcomes(Top)
    /\ Cardinality({p \in DOMAIN trace : trace[p] = Ev("oom", Top.ids, 0)}) < 2
    /\ trace' = trace \o <<Ev("submit", Top.ids, 0), Ev("oom", Top.ids, 0),
                           Ev("empty_cache", Top.ids, 0)>>
    /\ UNCHANGED <<config, pc, entries, i, batch, batch_idx, emb_dict, stack,
                   placement, tsv, exc>>

\* a variant of lines 127-141 with a slip: the cache is emptied in the branch
\* of the split only
FallbackOnOomNoRelease ==
    /\ pc = "embed"
    /\ Top.at = "try"
    /\ Len(Top.ids) = 1
    /\ [res |-> "oom", k |-> 0] \in Outcomes(Top)
    /\ stack' = Front(stack) \o <<[Top EXCEPT !.at = "cpu"]>>
    /\ placement' = "cpu"
    /\ trace' = trace \o <<Ev("submit", Top.ids, 0), Ev("oom", Top.ids, 0),
                           Ev("fallback", Top.ids, 0)>>
    /\ UNCHANGED <<config, pc, entries, i, batch, batch_idx, emb_dict, tsv, exc>>

\* lines 127-141: out of memory with one member; the model is moved to the
\* CPU for the call of line 139
FallbackOnOom ==
    /\ pc = "embed"
    /\ Top.at = "try"
    /\ Len(Top.ids) = 1
    /\ [res |-> "oom", k |-> 0] \in Outcomes(Top)
    /\ stack' = Front(stack) \o <<[Top EXCEPT !.at = "cpu"]>>
    /\ placement' = "cpu"
    /\ trace' = trace \o <<Ev("submit", Top.ids, 0), Ev("oom", Top.ids, 0),
                           Ev("empty_cache", Top.ids, 0), Ev("fallback", Top.ids, 0)>>
    /\ UNCHANGED <<config, pc, entries, i, batch, batch_idx, emb_dict, tsv, exc>>

\* variant of lines 127-148 without the test of line 128: every exception
\* of the encoder call is handled as out of memory
SubmitErrorAsOom ==
    /\ pc = "embed"
    /\ Top.at = "try"
    /\ \E o \in Outcomes(Top) :
          /\ o.res = "err"
          /\ emb_dict' = StoreMembers(emb_dict, Top, o.k)
          /\ LET mid  == Mid(Top.ids)
                 seen == trace \o <<Ev("submit", Top.ids, 0)>> \o PutEvents(Top, o.k)
                               \o <<Ev("err", Top.ids, o.k), Ev("empty_cache", Top.ids, 0)>>
             IN  IF Len(Top.ids) > 1
                 THEN /\ stack' = Front(stack)
                                    \o <<[Top EXCEPT !.at = "first"],
                                         Frame(FirstHalf(Top.ids, mid), FirstHalf(Top.spaced, mid),
                                          FirstHalf(Top.lens, mid))>>
                      /\ trace' = Append(seen, Ev("split", Top.ids, mid))
                      /\ UNCHANGED placement
                 ELSE /\ stack' = Front(stack) \o <<[Top EXCEPT !.at = "cpu"]>>
                      /\ trace' = Append(seen, Ev("fallback", Top.ids, 0))
                      /\ placement' = "cpu"
    /\ UNCHANGED <<config, pc, entries, i, batch, batch_idx, tsv, exc>>

\* lines 147-148 (and exceptions that are no RuntimeError): propagated
SubmitError ==
    /\ pc = "embed"
    /\ Top.at = "try"
    /\ \E o \in Outcomes(Top) :
          /\ o.res = "err"
          /\ emb_dict' = StoreMembers(emb_dict, Top, o.k)
          /\ trace' = trace \o <<Ev("submit", Top.ids, 0)>> \o PutEvents(Top, o.k)
                            \o <<Ev("err", Top.ids, o.k), Ev("fatal", Top.ids, 0)>>
    /\ pc' = "fatal"
    /\ exc' = [type |-> "EncoderError", at |-> "encoder", names |-> {}]
    /\ UNCHANGED <<config, entries, i, batch, batch_idx, stack, placement, tsv>>

\* a variant of lines 142-146 with a slip: line 146 is missing, the model
\* stays on the CPU
FallbackOkStaysOnCpu ==
    /\ pc = "embed"
    /\ Top.at = "cpu"
    /\ "ok" \in CpuOutcomes
    /\ placement' = "cpu"
    /\ Resume(StoreFromCpu(emb_dict, Top),
              <<Ev("cpu_ok", Top.ids, 0)>> \o PutEvents(Top, 1))
    /\ UNCHANGED <<config, entries, i, batch, batch_idx, exc>>

\* lines 142-146: the CPU call returned
FallbackOk ==
    /\ pc = "embed"
    /\ Top.at = "cpu"
    /\ "ok" \in CpuOutcomes
    /\ placement' = "cuda"
    /\ Resume(StoreFromCpu(emb_dict, Top),
              <<Ev("cpu_ok", Top.ids, 0)>> \o PutEvents(Top, 1)
                  \o <<Ev("to_device", Top.ids, 0)>>)
    /\ UNCHANGED <<config, entries, i, batch, batch_idx, exc>>

\* variant in which an exception of the CPU call is caught and the sequence
\* is skipped
FallbackErrorSkipped ==
    /\ pc = "embed"
    /\ Top.at = "cpu"
    /\ "err" \in CpuOutcomes
    /\ placement' = "cuda"
    /\ Resume(emb_dict, <<Ev("cpu_err", Top.ids, 0)>>)
    /\ UNCHANGED <<config, entries, i, batch, batch_idx, exc>>

\* an exception of the CPU call: raised inside the except clause, nothing
\* catches it, line 146 is not reached
FallbackError ==
    /\ pc = "embed"
    /\ Top.at = "cpu"
    /\ "err" \in CpuOutcomes
    /\ pc' = "fatal"
    /\ exc' = [type |-> "CpuError", at |-> "cpu", names |-> {}]
    /\ trace' = trace \o <<Ev("cpu_err", Top.ids, 0), Ev("fatal", Top.ids, 0)>>
    /\ UNCHANGED <<config, entries, i, batch, batch_idx, emb_dict, stack,
                   placement, tsv>>

Next ==
    \/ Start
    \/ Accumulate
    \/ Dispatch
    \/ SubmitError
    \/ FallbackError
    \/ SubmitOk
    \/ SplitOnOom
    \/ FallbackOnOom
    \/ FallbackOk

Spec == Init /\ [][Next]_vars

SpecCore == InitCore /\ [][Next]_vars

SpecStore == InitStore /\ [][Next]_vars

SpecPack == InitPack /\ [][Next]_vars

SpecDeep == InitDeep /\ [][Next]_vars

\* the program is one sequential thread: while a statement can run it runs,
\* and a call of the encoder returns or raises
SpecLive == InitDeep /\ [][Next]_vars /\ WF_vars(Next)

NextInput == ReadFasta \/ Next

SpecInput == InitInput /\ [][NextInput]_vars

----------------------------------------------------------------------------
(* The runs in which a write to the output file fails. *)

\* lines 59-62 when fh.write raises OSError (a full disk, a lost mount)
\* after j lines: the file was truncated by open("w") and holds the j lines
\* written so far; nothing catches the exception
ResumeSaveFails(d, events) ==
    LET r     == Return(stack)
        lines == save_ids_and_embeddings_tsv(d, tsv)
    IN  /\ r.stack = <<>>
        /\ SaveDue
        /\ \E j \in 0..(Len(lines) - 1) :
              /\ tsv' = SubSeq(lines, 1, j)
              /\ trace' = trace \o events \o r.events
                                \o <<Ev("save_err", SortedKeys(DOMAIN d), j),
                                     Ev("fatal", <<>>, 0)>>
        /\ emb_dict' = d
        /\ stack' = <<>>
        /\ pc' = "fatal"
        /\ exc' = [type |-> "OSError", at |-> "save", names |-> {}]

\* SubmitOk, with the save of line 200 failing
SubmitOkSaveFails ==
    /\ pc = "embed"
    /\ Top.at = "try"
    /\ [res |-> "ok", k |-> Len(Top.ids)] \in Outcomes(Top)
    /\ ResumeSaveFails(StoreMembers(emb_dict, Top, Len(Top.ids)),
                       <<Ev("submit", Top.ids, 0), Ev("ok", Top.ids, 0)>>
                           \o PutEvents(Top, Len(Top.ids)))
    /\ UNCHANGED <<config, entries, i, batch, batch_idx, placement>>

\* FallbackOk, with the save of line 200 failing
FallbackOkSaveFails ==
    /\ pc = "embed"
    /\ Top.at = "cpu"
    /\ "ok" \in CpuOutcomes
    /\ placement' = "cuda"
    /\ ResumeSaveFails(StoreFromCpu(emb_dict, Top),
                       <<Ev("cpu_ok", Top.ids, 0)>> \o PutEvents(Top, 1)
                           \o <<Ev("to_device", Top.ids, 0)>>)
    /\ UNCHANGED <<config, entries, i, batch, batch_idx>>

NextIO == Next \/ SubmitOkSaveFails \/ FallbackOkSaveFails

SpecIO == InitCore /\ [][NextIO]_vars

----------------------------------------------------------------------------
(* Reading the history. *)

Pos == DOMAIN trace

SeqIds == {seqs[k].uid : k \in DOMAIN seqs}

Happened(e) == \E p \in Pos : trace[p].ev = e

\* the positions of the events e that concern the identifier u
Of(e, u) == {p \in Pos : trace[p].ev = e /\ u \in Range(trace[p].ids)}

\* a unit was resolved directly: by the encoder or by the CPU call
Resolved(p) == trace[p].ev \in {"ok", "cpu_ok"}

----------------------------------------------------------------------------
(* C1 - Completeness: a run that ends without a fatal error leaves exactly *)
(* one entry per selected sequence in the embedding dictionary, whatever   *)
(* the encoder rejected on the way: the keys are the identifiers of seqs.  *)
C1_Completeness ==
    pc = "done" => DOMAIN emb_dict = SeqIds

\* a completed run over three sequences with a split and a CPU fallback
C1_Witness ==
    /\ pc = "done"
    /\ Len(seqs) = 3
    /\ Happened("split")
    /\ Happened("cpu_ok")

(* C2 - When a call of safe_embed on a unit returns, every member of the   *)
(* unit has its own entry in the dictionary, every member is in exactly    *)
(* one directly resolved sub-unit (none lost, none in two), and nothing    *)
(* but members of the unit was stored by the call, whatever the encoder    *)
(* rejected.                                                               *)
C2_ResolveAll ==
    \A p \in Pos :
        trace[p].ev = "return" =>
            LET U == trace[p].ids
                calls == {q \in Pos : trace[q].ev = "submit" /\ trace[q].ids = U}
                call == CHOOSE q \in calls : TRUE
            IN  /\ Cardinality(calls) = 1
                /\ \A m \in DOMAIN U :
                      /\ U[m] \in DOMAIN emb_dict
                      /\ Cardinality({q \in Of("ok", U[m]) \cup Of("cpu_ok", U[m]) : q < p}) = 1
                /\ \A q \in Pos :
                      (call < q /\ q < p /\ trace[q].ev = "put")
                          => trace[q].ids[1] \in Range(U)

\* a unit of three members that was rejected, split, and has returned
C2_Witness ==
    \E p, q \in Pos :
        /\ trace[p].ev = "return"
        /\ Len(trace[p].ids) = 3
        /\ trace[q].ev = "oom"
        /\ trace[q].ids = trace[p].ids

(* C3 - When the encoder reports out of memory for a unit of one          *)
(* sequence, the CPU path is called once for that sequence, right after   *)
(* the cache is released; when that call returns the sequence is stored   *)
(* once from it, and the sequence is never submitted to the device again. *)
C3_SingletonFallback ==
    \A p \in Pos :
        (trace[p].ev = "oom" /\ Len(trace[p].ids) = 1) =>
            LET u == trace[p].ids[1]
            IN  /\ p + 2 \in Pos
                /\ trace[p + 2] = Ev("fallback", <<u>>, 0)
                /\ Cardinality(Of("fallback", u)) = 1
                /\ \A q \in Of("submit", u) : q < p
                /\ \A q \in Of("split", u) : q < p
                /\ \A q \in Of("cpu_ok", u) :
                      /\ u \in DOMAIN emb_dict
                      /\ trace[q + 1] = Ev("put", <<u>>, 0)
                      /\ Cardinality({r \in Of("put", u) : r > p}) = 1

\* a singleton was rejected, resolved on the CPU, and the run went on with
\* another submission
C3_Witness ==
    \E p, q, r \in Pos :
        /\ trace[p].ev = "oom" /\ Len(trace[p].ids) = 1
        /\ trace[q].ev = "cpu_ok" /\ trace[q].ids = trace[p].ids
        /\ trace[r].ev = "submit" /\ r > q

(* C4 - With --auto_shrink off the first out-of-memory signal ends the run: *)
(* it is followed by no split, no CPU call and no further submission.      *)
C4_FatalWhenShrinkOff ==
    ~auto_shrink =>
        \A p \in Pos :
            trace[p].ev = "oom" =>
                /\ pc = "fatal"
                /\ \A q \in Pos :
                      q > p => trace[q].ev \notin {"split", "fallback", "submit", "cpu_ok"}

C6_OtherErrorIsFatal ==
    \A p \in Pos :
        trace[p].ev = "err" =>
            /\ pc = "fatal"
            /\ exc = [type |-> "EncoderError", at |-> "encoder", names |-> {}]
            /\ p + 1 = Len(trace)
            /\ trace[p + 1].ev = "fatal"
            /\ ~ENABLED Next

\* the failure came after a split, on a sub-unit
C6_Witness ==
    \E p, q \in Pos :
        /\ trace[p].ev = "err"
        /\ trace[q].ev = "split"
        /\ q < p

----------------------------------------------------------------------------
(* The batches embed_fasta closed, in order. *)

IsUnit(e) == e.ev = "unit"

Units == LET us == SelectSeq(trace, IsUnit) IN [k \in DOMAIN us |-> us[k].ids]

IsSplit(e) == e.ev = "split"

Splits == LET ss == SelectSeq(trace, IsSplit) IN [k \in DOMAIN ss |-> ss[k].ids]

S(n) == <<"s", n>>

(* C7 - The example: 50, 40, 10, 10, 5 residues, max_batch 5, max_residues *)
(* 60, stub encoder rejecting more than 55 residues.  As claimed: three    *)
(* batches [50], [40,10,10], [5]; only the second splits; five entries.    *)
C7_ExampleAsClaimed ==
    (IsExample /\ pc = "done") =>
        /\ Units = << <<S("1")>>, <<S("2"), S("3"), S("4")>>, <<S("5")>> >>
        /\ Splits = << <<S("2"), S("3"), S("4")>> >>
        /\ DOMAIN emb_dict = SeqIds

(* C7, amended - In the example the first batch stays open after the       *)
(* sequence of 50 residues (50 < 60) and closes with the one of 40: the    *)
(* batches are [50,40] and [10,10,5].  The stub rejects only the first (90 *)
(* residues), which splits into [50] and [40], both accepted; the second   *)
(* (25 residues) is accepted as a whole.  The dictionary ends with all     *)
(* five identifiers.                                                       *)
C7_Example ==
    (IsExample /\ pc = "done") =>
        /\ Units = << <<S("1"), S("2")>>, <<S("3"), S("4"), S("5")>> >>
        /\ Splits = << <<S("1"), S("2")>> >>
        /\ {trace[p].ids : p \in {q \in Pos : trace[q].ev = "ok"}}
              = { <<S("1")>>, <<S("2")>>, <<S("3"), S("4"), S("5")>> }
        /\ ~Happened("fallback")
        /\ DOMAIN emb_dict = SeqIds
        /\ Cardinality(SeqIds) = 5

\* the example has run to its end
C7_Witness == IsExample /\ pc = "done" /\ Len(Units) = 2

\* closing condition for a batch made of entries a..c
Closes(a, c) ==
    \/ c - a + 1 >= max_batch
    \/ SumLens(Lens(SubSeq(entries, a, c))) >= max_residues
    \/ entries[c].len > max_seq_len
    \/ c = Len(entries)

\* the closed batches us, then the open batch, are consecutive runs of the
\* entries from position a on, each closed at the first position that closes
RECURSIVE PackedFrom(_, _)
PackedFrom(us, a) ==
    IF us = <<>>
    THEN /\ Uids(batch) = Uids(SubSeq(entries, a, i))
         /\ \A c \in a..i : ~Closes(a, c)
    ELSE LET b == a + Len(Head(us)) - 1
         IN  /\ Len(Head(us)) >= 1
             /\ b <= i
             /\ Head(us) = Uids(SubSeq(entries, a, b))
             /\ Closes(a, b)
             /\ \A c \in a..(b - 1) : ~Closes(a, c)
             /\ PackedFrom(Tail(us), b + 1)

(* C8 - The entries are taken longest first, and the open batch is closed  *)
(* right after an entry is added exactly when the batch has max_batch      *)
(* members, or its residues have reached max_residues, or the entry is     *)
(* longer than max_seq_len, or the entry is the last one; otherwise the    *)
(* batch stays open, and only closed batches are submitted.                *)
C8_Packing ==
    pc # "start" =>
        LET us == Units
        IN  /\ Len(entries) = Len(seqs)
            /\ Range(entries) = Range(seqs)
            /\ \A k \in 1..(Len(entries) - 1) : entries[k].len >= entries[k + 1].len
            /\ PackedFrom(us, 1)
            /\ \A p \in Pos :
                  trace[p].ev = "submit" =>
                      \E k \in DOMAIN us : Range(trace[p].ids) \subseteq Range(us[k])

\* a batch closed by its residues after staying open once, another batch
\* after it, and entries that were not in file order
C8_Witness ==
    /\ pc = "done"
    /\ Len(Units) = 2
    /\ Len(Units[1]) = 2
    /\ Len(Units[1]) < max_batch
    /\ entries # seqs

(* C9 - A store of an identifier that already has an entry is a fatal      *)
(* error: the run stops there and the entry is not written again.          *)
C9_PutOnPresentIsFatal ==
    \A p, q \in Pos :
        (p < q /\ trace[p].ev = "put" /\ trace[q].ev = "put"
               /\ trace[q].ids = trace[p].ids)
            => /\ pc = "fatal"
               /\ exc.at = "store"

(* C10 - Every identifier is written to the dictionary at most once in a   *)
(* run, also when a batch is rejected after some of its members were       *)
(* stored; an entry, once written, stays.                                  *)
C10_WrittenOnce ==
    /\ \A u \in SeqIds : Cardinality(Of("put", u)) <= 1
    /\ \A u \in SeqIds : Of("put", u) # {} => u \in DOMAIN emb_dict

----------------------------------------------------------------------------
(* The output file. *)

\* the identifiers of the lines of a file
TsvIds(f) == { f[k].uid : k \in DOMAIN f }

\* a call of save_ids_and_embeddings_tsv has just returned
JustFlushed == trace # <<>> /\ Last(trace).ev = "flush"

\* C11: after every flush the file holds exactly one line per id of the
\* store at that moment, the lines in ascending order of the identifier and
\* each with the numbers of its entry, and no line of the earlier content
C11_FlushIsSnapshot ==
    JustFlushed =>
        /\ Len(tsv) = Cardinality(DOMAIN emb_dict)
        /\ TsvIds(tsv) = DOMAIN emb_dict
        /\ \A k \in 1..(Len(tsv) - 1) : StrLess(tsv[k].uid, tsv[k + 1].uid)
        /\ \A k \in DOMAIN tsv : tsv[k].vec = TsvVec(emb_dict[tsv[k].uid])
        /\ \A k \in DOMAIN tsv : tsv[k] \notin Range(PriorTsv)

\* a flush of three entries whose sorted order is not the order in which
\* they were stored, over the file of an earlier run
C11_Witness ==
    /\ JustFlushed
    /\ Len(tsv) = 3
    /\ Len(entries) = 3
    /\ [k \in DOMAIN tsv |-> tsv[k].uid] # Uids(entries)
    /\ Cardinality({p \in Pos : trace[p].ev = "flush"}) = 1

\* C15: a second flush with no store in between leaves the file as the
\* first flush left it
C15_FlushIdempotent ==
    JustFlushed => save_ids_and_embeddings_tsv(emb_dict, tsv) = tsv

\* the state after a flush of several entries, where a second call would act
C15_Witness ==
    /\ JustFlushed
    /\ Len(tsv) >= 2
    /\ pc = "loop"
    /\ save_ids_and_embeddings_tsv(emb_dict, PriorTsv) = tsv

\* the batch of a "unit" event holds the last of the sorted entries
IsLastUnit(U) == entries[Len(entries)].uid \in Range(U)

\* C12: the return of the k-th batch from safe_embed is followed by a flush
\* exactly when k is a multiple of save_every or the batch is the last one;
\* at normal completion the file holds the whole final store
C12_FlushSchedule ==
    /\ \A p \in Pos :
          IsUnit(trace[p]) =>
              \A q \in (p + 1)..Len(trace) :
                  trace[q] = Ev("return", trace[p].ids, 0) =>
                      ((trace[p].k % save_every = 0 \/ IsLastUnit(trace[p].ids))
                          <=> (q + 1 \in Pos /\ trace[q + 1].ev = "flush"
                                           /\ trace[q + 1].k = trace[p].k))
    /\ pc = "done" =>
          /\ TsvIds(tsv) = DOMAIN emb_dict
          /\ DOMAIN emb_dict = SeqIds
          /\ Len(tsv) = Cardinality(SeqIds)
          /\ \A k \in DOMAIN tsv : tsv[k].vec = TsvVec(emb_dict[tsv[k].uid])

\* a finished run of three batches with save_every = 2: no flush after the
\* first, one after the second, one after the third, which is the last
C12_Witness ==
    /\ pc = "done"
    /\ save_every = 2
    /\ batch_idx = 3
    /\ Cardinality({p \in Pos : trace[p].ev = "flush"}) = 2
    /\ \E p \in Pos : trace[p].ev = "flush" /\ trace[p].k = 3

\* this step ends with a call of save_ids_and_embeddings_tsv
FlushStep == Len(trace') > Len(trace) /\ Last(trace').ev = "flush"

\* C14: from one flush of a run to the next, the identifiers in the file
\* only grow: those of the file left by a flush are among those of the file
\* left by the following flush
C14_MonotonicGrowth ==
    [][(Happened("flush") /\ FlushStep) => TsvIds(tsv) \subseteq TsvIds(tsv')]_vars

\* a second flush has just added identifiers to those of the first
C14_Witness ==
    /\ JustFlushed
    /\ \E p \in Pos : /\ p < Len(trace)
                       /\ trace[p].ev = "flush"
                       /\ Range(trace[p].ids) # {}
                       /\ Range(trace[p].ids) \subseteq TsvIds(tsv)
                       /\ Range(trace[p].ids) # TsvIds(tsv)

\* the file a flush of the store with the identifiers ids would leave
SnapshotOf(ids) ==
    [k \in DOMAIN ids |-> [uid |-> ids[k], vec |-> TsvVec(emb_dict[ids[k]])]]

\* C13: the output file always holds a complete snapshot: the file of the
\* earlier run, or all the lines of the store as it was at some call of
\* save_ids_and_embeddings_tsv, also when the run has ended in an error
C13_AlwaysSnapshot ==
    \/ tsv = PriorTsv
    \/ \E p \in Pos : /\ trace[p].ev \in {"flush", "save_err"}
                       /\ tsv = SnapshotOf(trace[p].ids)

----------------------------------------------------------------------------
(* The stored values. *)

\* the length of the sequence of an identifier
LenOf(u) == LET k == CHOOSE k \in DOMAIN entries : entries[k].uid = u
            IN  entries[k].len

\* what lines 117-126 store for a sequence submitted alone, in a batch of one
Alone(u) ==
    Embedding(Encode(<<[of |-> u, n |-> LenOf(u)]>>)[1], LenOf(u), per_protein)

\* C16: with an encoder whose output for a sequence is a function of the
\* sequence, the value stored for a member is the value it gets when it is
\* submitted alone, whether its batch was accepted as it was, was split, or
\* the member went through the CPU fallback; batch-mates do not change it
C16_OrderIndependence ==
    \A u \in DOMAIN emb_dict : emb_dict[u] = Alone(u)

\* a finished run in which a batch was split, one member went through the
\* CPU fallback and two members of different lengths were stored from one
\* encoder call
C16_Witness ==
    /\ pc = "done"
    /\ Happened("split")
    /\ Happened("cpu_ok")
    /\ \E p \in Pos : /\ trace[p].ev = "ok"
                       /\ Len(trace[p].ids) >= 2
    /\ \E p \in Pos : /\ trace[p].ev = "put"
                       /\ p > 1
                       /\ \E q \in 1..(p - 1) :
                             /\ trace[q].ev = "submit"
                             /\ trace[p].ids[1] \in Range(trace[q].ids)
                             /\ \E w \in Range(trace[q].ids) :
                                   LenOf(w) # LenOf(trace[p].ids[1])
                             /\ \A r \in (q + 1)..(p - 1) :
                                   trace[r].ev \in {"ok", "put"}

\* the rows of a sequence cut to its true length: the per-position result
Truncated(u) ==
    Embedding(Encode(<<[of |-> u, n |-> LenOf(u)]>>)[1], LenOf(u), FALSE).v

\* C18: with --per_protein the stored value of a sequence is the mean of
\* the rows of its per-position result cut to the true length (one number,
\* the sum of the rows over their count), whichever path stored it
C18_Pooling ==
    per_protein =>
        \A u \in DOMAIN emb_dict :
            /\ Len(Truncated(u)) = LenOf(u)
            /\ emb_dict[u].pooled
            /\ Len(emb_dict[u].v) = 1
            /\ emb_dict[u].den > 0
            /\ emb_dict[u].v[1] * Len(Truncated(u))
                   = SumLens(Truncated(u)) * emb_dict[u].den

\* a finished pooled run with a sequence of two residues stored by the CPU
\* fallback and another stored by the encoder call of a batch of two
C18_Witness ==
    /\ pc = "done"
    /\ per_protein
    /\ \E p \in Pos : /\ trace[p].ev = "cpu_ok"
                       /\ LenOf(trace[p].ids[1]) = 2
    /\ \E p \in Pos : /\ trace[p].ev = "ok"
                       /\ Len(trace[p].ids) = 2
                       /\ LenOf(trace[p].ids[1]) = 2

----------------------------------------------------------------------------
(* The input. *)

\* the allow-list is empty, or no header of the FASTA file is in it
NothingSelected ==
    \/ source.ids = {}
    \/ \A k \in DOMAIN source.fasta : source.fasta[k].hdr \notin source.ids

\* C17: when the allow-list is empty or no record of the FASTA file matches
\* it, the run ends with the ValueError of line 166 and nothing else: no
\* batch is formed, the encoder is not called on either path, nothing is
\* stored and the output file is left as it was
C17_NothingSelectedIsFatal ==
    (source.known /\ NothingSelected /\ pc # "read") =>
        /\ pc \in {"start", "fatal"}
        /\ pc = "start" => (trace = <<>> /\ ENABLED Start)
        /\ pc = "fatal" => /\ exc.type = "ValueError"
                           /\ exc.at = "read_fasta"
                           /\ trace = <<Ev("fatal", <<>>, 0)>>
                           /\ ~ENABLED NextInput
        /\ emb_dict = <<>>
        /\ tsv = PriorTsv

\* the run has failed on a FASTA file with records of which the allow-list,
\* not empty, holds none
C17_Witness ==
    /\ source.known
    /\ pc = "fatal"
    /\ source.ids # {}
    /\ Len(source.fasta) >= 2
    /\ NothingSelected

----------------------------------------------------------------------------
(* The recursion of safe_embed. *)

\* the frame j of the stack is inside one of its two recursive calls
Splitting(j) == stack[j].at \in {"first", "second"}

\* the arguments of frame c are those of frame f from member a to member b
IsSlice(c, f, a, b) ==
    /\ c.ids = SubSeq(f.ids, a, b)
    /\ c.spaced = SubSeq(f.spaced, a, b)
    /\ c.lens = SubSeq(f.lens, a, b)

\* C19: a batch of n > 1 sequences that ran out of memory is resolved as
\* two new batches, its first floor(n/2) members and the others: both are
\* non-empty and contiguous, keep the order, share no member and together
\* hold every member, and the batch itself stays as it was
C19_SplitInHalves ==
    /\ stack # <<>> =>
          \E p \in Pos : /\ IsUnit(trace[p])
                          /\ \A q \in Pos : IsUnit(trace[q]) => q <= p
                          /\ stack[1].ids = trace[p].ids
    /\ \A j \in DOMAIN stack :
          Splitting(j) =>
              LET f == stack[j]
                  n == Len(f.ids)
                  h == CHOOSE h \in 0..n : 2 * h <= n /\ n < 2 * h + 2
              IN  /\ n > 1
                  /\ 0 < h /\ h < n
                  /\ j + 1 \in DOMAIN stack
                  /\ f.at = "first" => IsSlice(stack[j + 1], f, 1, h)
                  /\ f.at = "second" => IsSlice(stack[j + 1], f, h + 1, n)
                  /\ Len(stack[j + 1].ids) > 0
                  /\ Range(SubSeq(f.ids, 1, h)) \cap Range(SubSeq(f.ids, h + 1, n)) = {}
                  /\ SubSeq(f.ids, 1, h) \o SubSeq(f.ids, h + 1, n) = f.ids
                  /\ Len(f.spaced) = n /\ Len(f.lens) = n
                  /\ \E p \in Pos : trace[p] = Ev("split", f.ids, h)

\* a batch of three sequences is in its second recursive call, for its last
\* two members, after its first member was resolved
C19_Witness ==
    /\ Len(stack) = 2
    /\ Len(stack[1].ids) = 3
    /\ stack[1].at = "second"
    /\ Len(stack[2].ids) = 2
    /\ stack[1].ids[1] \in DOMAIN emb_dict

\* the events of kind e for batches made of members of U
CallsFor(e, U) ==
    Cardinality({q \in Pos : trace[q].ev = e /\ Range(trace[q].ids) \subseteq Range(U)})

\* C20: for a batch of n sequences handed to safe_embed, the encoder is
\* called on the device (line 121) at most 2n - 1 times, whatever calls run
\* out of memory; the CPU call of line 139 is made at most once per member
C20_CallBound ==
    \A p \in Pos :
        IsUnit(trace[p]) =>
            /\ CallsFor("submit", trace[p].ids) <= 2 * Len(trace[p].ids) - 1
            /\ CallsFor("fallback", trace[p].ids) <= Len(trace[p].ids)

\* a batch of three sequences resolved with five calls on the device: the
\* batch, its halves and the halves of its second half
C20_Witness ==
    \E p \in Pos :
        /\ IsUnit(trace[p])
        /\ Len(trace[p].ids) = 3
        /\ CallsFor("submit", trace[p].ids) = 5
        /\ CallsFor("split", trace[p].ids) = 2
        /\ \E q \in Pos : trace[q] = Ev("return", trace[p].ids, 0)

----------------------------------------------------------------------------
(* The order of the encoder calls. *)

\* the identifier u was stored between the events p and q
StoredBetween(u, p, q) ==
    \E r \in (p + 1)..(q - 1) : trace[r] = Ev("put", <<u>>, 0)

\* the event q is a call of the encoder, on the device or on the CPU, for a
\* batch with a member among us
CallsAmong(q, us) ==
    /\ trace[q].ev \in {"submit", "fallback"}
    /\ Range(trace[q].ids) \cap Range(us) # {}

\* C21: the calls of the encoder are made one after the other, depth first:
\* after a split no member of the second half is submitted before every
\* member of the first half was stored, through whatever splits and CPU
\* fallbacks the first half needed, and no member of a batch is submitted
\* before every member of the batches before it was stored
C21_DepthFirst ==
    /\ \A p \in Pos :
          trace[p].ev = "split" =>
              LET U     == trace[p].ids
                  left  == SubSeq(U, 1, trace[p].k)
                  right == SubSeq(U, trace[p].k + 1, Len(U))
              IN  \A q \in (p + 1)..Len(trace) :
                      CallsAmong(q, right) =>
                          \A m \in DOMAIN left :
                              /\ left[m] \in DOMAIN emb_dict
                              /\ StoredBetween(left[m], p, q)
    /\ \A p \in Pos :
          IsUnit(trace[p]) =>
              \A q \in (p + 1)..Len(trace) :
                  (IsUnit(trace[q])
                      \/ (trace[q].ev \in {"submit", "fallback"}
                             /\ Range(trace[q].ids) \cap Range(trace[p].ids) = {}))
                  => \A m \in DOMAIN trace[p].ids :
                         /\ trace[p].ids[m] \in DOMAIN emb_dict
                         /\ StoredBetween(trace[p].ids[m], p, q)

\* a batch of four was split, its first half was split again with a CPU
\* fallback for its first member, and then its second half was submitted
C21_Witness ==
    \E p \in Pos : \E q \in Pos :
        /\ IsUnit(trace[p])
        /\ Len(trace[p].ids) = 4
        /\ trace[q] = Ev("submit", SubSeq(trace[p].ids, 3, 4), 0)
        /\ \E r \in 1..(q - 1) : trace[r] = Ev("cpu_ok", <<trace[p].ids[1]>>, 0)
        /\ \E r \in 1..(q - 1) : trace[r] = Ev("split", SubSeq(trace[p].ids, 1, 2), 1)

\* a call of the encoder: on the device, or on the CPU (line 139)
IsCall(e) == e.ev \in {"submit", "fallback", "cpu_ok", "cpu_err"}

\* C22: after every out-of-memory error torch.cuda.empty_cache() is called
\* at once, before the next call of the encoder of any kind: the submission
\* of a half, the CPU call, or any later submission
C22_ReleaseBeforeRetry ==
    \A p \in Pos :
        trace[p].ev = "oom" =>
            /\ p + 1 \in Pos
            /\ trace[p + 1] = Ev("empty_cache", trace[p].ids, 0)
            /\ \A q \in (p + 1)..Len(trace) :
                  IsCall(trace[q]) =>
                      \E r \in (p + 1)..(q - 1) : trace[r].ev = "empty_cache"

\* a batch ran out of memory and its first half was submitted, that half of
\* one sequence ran out of memory too and the CPU call was made for it
C22_Witness ==
    \E p \in Pos : \E q \in Pos :
        /\ p < q
        /\ trace[p].ev = "oom"
        /\ Len(trace[p].ids) > 1
        /\ trace[q].ev = "oom"
        /\ trace[q].ids = <<trace[p].ids[1]>>
        /\ \E r \in Pos : r > q /\ trace[r] = Ev("cpu_ok", trace[q].ids, 0)

----------------------------------------------------------------------------
(* Where the model is. *)

\* C23: the model is on the device whenever a batch is about to be
\* submitted (line 121); it is on the CPU for the CPU call (line 139) and,
\* when that call has returned, it is moved back (line 146) before any later
\* submission, so that it is on the device between two batches
C23_Placement ==
    /\ (pc = "embed" /\ Top.at = "try") => placement = "cuda"
    /\ (pc = "embed" /\ Top.at = "cpu") => placement = "cpu"
    /\ pc \in {"start", "loop", "done"} => placement = "cuda"
    /\ \A p \in Pos :
          trace[p].ev = "cpu_ok" =>
              /\ \E r \in (p + 1)..Len(trace) : trace[r] = Ev("to_device", trace[p].ids, 0)
              /\ \A q \in (p + 1)..Len(trace) :
                    trace[q].ev = "submit" =>
                        \E r \in (p + 1)..(q - 1) : trace[r].ev = "to_device"

\* a batch is about to be submitted after the CPU call for a sequence of the
\* batch before it, and another was submitted after a CPU call in its own
\* batch
C23_Witness ==
    /\ pc = "embed"
    /\ Top.at = "try"
    /\ Len(stack) = 1
    /\ batch_idx = 2
    /\ placement = "cuda"
    /\ \E p \in Pos : \E q \in Pos :
          /\ p < q
          /\ trace[p].ev = "cpu_ok"
          /\ trace[q].ev = "submit"
          /\ \A r \in Pos : IsUnit(trace[r]) => (r < p \/ r > q)

----------------------------------------------------------------------------
(* Sequences longer than max_seq_len. *)

\* the sequence of the identifier u is longer than --max_seq_len
IsLong(u) == LenOf(u) > max_seq_len

\* C24: a sequence longer than max_seq_len is always handed to safe_embed,
\* and submitted, in a batch of its own: as the entries are taken longest
\* first, the open batch is empty whenever such a sequence is added, and it
\* is closed at once
C24_LongAlone ==
    /\ \A p \in Pos :
          (trace[p].ev \in {"unit", "submit"}
              /\ \E m \in DOMAIN trace[p].ids : IsLong(trace[p].ids[m]))
          => Len(trace[p].ids) = 1
    /\ \A k \in DOMAIN batch : batch[k].len <= max_seq_len
    /\ (pc = "loop" /\ i < Len(entries) /\ entries[i + 1].len > max_seq_len)
          => batch = <<>>

\* a finished run over a file with a short sequence before two long ones:
\* each long one went alone
C24_Witness ==
    /\ pc = "done"
    /\ Len(seqs) = 3
    /\ seqs[1].len <= max_seq_len
    /\ seqs[2].len > max_seq_len
    /\ seqs[3].len > max_seq_len
    /\ max_batch = 3
    /\ max_residues = 4
    /\ batch_idx = 3

----------------------------------------------------------------------------
(* Termination. *)

\* every frame of safe_embed holds fewer identifiers than its caller
StackShrinks ==
    \A j \in 1..(Len(stack) - 1) : Len(stack[j + 1].ids) < Len(stack[j].ids)

\* the run is over: the loop was left after a last save, or an exception
\* ended the program
RunOver ==
    \/ pc = "done" /\ stack = <<>> /\ i = Len(entries) /\ JustFlushed
    \/ pc = "fatal" /\ Last(trace).ev = "fatal"

\* C25: whatever the encoder answers (a result, out of memory, another
\* error), every recursive call of safe_embed is on a strictly shorter list,
\* and the run ends: either the loop is left after a final save or an
\* exception ends the program
C25_Termination == [](StackShrinks) /\ <>(RunOver)

\* a run that ended normally after two levels of recursion, CPU calls and an
\* ordinary exit of the last call
C25_Witness ==
    /\ pc = "done"
    /\ JustFlushed
    /\ batch_idx = 1
    /\ \E p, q, r \in Pos :
          /\ p < q
          /\ q < r
          /\ trace[p].ev = "split" /\ Len(trace[p].ids) = 4
          /\ trace[q].ev = "split" /\ Len(trace[q].ids) = 2
          /\ trace[r].ev = "cpu_ok"

============================================================================
